---- MODULE Spec2Model ----
(***************************************************************************)
(* A model of the balanced-ternary crate: the Digit algebra (src/digit.rs), *)
(* the Ternary value with its conversions (src/lib.rs) and the Ternary      *)
(* operators (src/operations.rs).                                           *)
(*                                                                          *)
(* Every operation of the crate is a pure function.  The state machine      *)
(* records one call: the arguments are drawn in the initial state, an       *)
(* action applies one operation to them and stores what the call returned   *)
(* (a value, or the panic that ended it) in out.                            *)
(*                                                                          *)
(* Integers: TLC's integers are 32 bits wide, so the crate's i64            *)
(* accumulator is modelled as a two's complement integer of IntBits bits.   *)
(* At IntBits = 12 the accumulator stands to the powers of 3 as i64 does:   *)
(*     (3^7 - 1) / 2  <  2^11 - 1  <  3^7        (1093 < 2047 < 2187)       *)
(*     (3^40 - 1) / 2 <  2^63 - 1  <  3^40       for i64,                   *)
(* so the largest values need one digit more than the accumulator can       *)
(* weigh, as they do in the crate.                                          *)
(*                                                                          *)
(* Overflow: an arithmetic overflow of a Rust integer panics when the crate *)
(* is built with overflow checks (debug, test) and wraps when it is built   *)
(* without (release).  build is the build in use; both are modelled.        *)
(***************************************************************************)
EXTENDS Integers, Sequences, FiniteSets, TLC

\* Width in bits of the modelled i64 accumulator.
IntBits == 12
\* Longest text drawn as an argument of parse.
MaxStrLen == 4
\* Longest Ternary drawn digit by digit as an operand.
MaxLen == 3
\* How far from each boundary value the operands of the operators are drawn.
Near == 1

VARIABLES
    build,   \* "debug": overflow checks on; "release": overflow wraps
    op,      \* the operation that was called, "none" before the call
    lhs,     \* Digit argument: the receiver
    rhs,     \* Digit argument: the other operand
    tern,    \* Ternary argument: the receiver (its digits, most significant first)
    tern2,   \* Ternary argument: the other operand
    num,     \* i64 argument
    text,    \* &str argument, a sequence of characters
    closure, \* closure argument (f), by name; "none" for a call that takes none
    data,    \* DataTernary receiver: the i8 of each of its chunks, first chunk first
    out      \* what the call returned: Ok(value) or Panic(message)

vars == <<build, op, lhs, rhs, tern, tern2, num, text, closure, data, out>>

Ok(val) == [st |-> "ok", v |-> val]
Panic(msg) == [st |-> "panic", v |-> msg]
IsOk(r) == r.st = "ok"
IsPanic(r) == r.st = "panic"
NoCall == [st |-> "none", v |-> ""]

(***************************************************************************)
(* Digit (src/digit.rs)                                                     *)
(***************************************************************************)
Neg == "Neg"
Zero == "Zero"
Pos == "Pos"
Digit == {Neg, Zero, Pos}

to_char(d) ==
    CASE d = Neg -> "-"
      [] d = Zero -> "0"
      [] d = Pos -> "+"

from_char(c) ==
    CASE c = "-" -> Ok(Neg)
      [] c = "0" -> Ok(Zero)
      [] c = "+" -> Ok(Pos)
      [] OTHER -> Panic("Invalid value. A Ternary must be either -, 0 or +.")

to_i8(d) ==
    CASE d = Neg -> -1
      [] d = Zero -> 0
      [] d = Pos -> 1

\* from_i8 that goes by the sign of the integer.
from_i8_by_sign(i) ==
    CASE i < 0 -> Ok(Neg)
      [] i = 0 -> Ok(Zero)
      [] i > 0 -> Ok(Pos)

from_i8(i) ==
    CASE i = -1 -> Ok(Neg)
      [] i = 0 -> Ok(Zero)
      [] i = 1 -> Ok(Pos)
      [] OTHER -> Panic("Invalid value. A Ternary must be either -1, 0 or +1.")

possibly(self) ==
    CASE self = Neg -> Neg
      [] self = Zero -> Pos
      [] self = Pos -> Pos

necessary(self) ==
    CASE self = Neg -> Neg
      [] self = Zero -> Neg
      [] self = Pos -> Pos

contingently(self) ==
    CASE self = Neg -> Neg
      [] self = Zero -> Pos
      [] self = Pos -> Neg

absolute_positive(self) ==
    CASE self = Neg -> Pos
      [] self = Zero -> Zero
      [] self = Pos -> Pos

positive(self) ==
    CASE self = Neg -> Zero
      [] self = Zero -> Zero
      [] self = Pos -> Pos

not_negative(self) ==
    CASE self = Neg -> Zero
      [] self = Zero -> Pos
      [] self = Pos -> Pos

\* not_positive with Neg and Zero sent to Pos.
not_positive_to_pos(self) ==
    CASE self = Neg -> Pos
      [] self = Zero -> Pos
      [] self = Pos -> Zero

not_positive(self) ==
    CASE self = Neg -> Neg
      [] self = Zero -> Neg
      [] self = Pos -> Zero

negative(self) ==
    CASE self = Neg -> Neg
      [] self = Zero -> Zero
      [] self = Pos -> Zero

absolute_negative(self) ==
    CASE self = Neg -> Neg
      [] self = Zero -> Zero
      [] self = Pos -> Neg

k3_imply(self, other) ==
    CASE self = Neg -> Pos
      [] self = Zero -> positive(other)
      [] self = Pos -> other

k3_equiv(self, other) ==
    CASE self = Neg -> (CASE other = Neg -> Pos
                          [] other = Zero -> Zero
                          [] other = Pos -> Neg)
      [] self = Zero -> Zero
      [] self = Pos -> other

bi3_and(self, other) ==
    CASE self = Neg -> absolute_negative(other)
      [] self = Zero -> Zero
      [] self = Pos -> other

bi3_or(self, other) ==
    CASE self = Neg -> other
      [] self = Zero -> Zero
      [] self = Pos -> absolute_positive(other)

bi3_imply(self, other) ==
    CASE self = Neg -> absolute_positive(other)
      [] self = Zero -> Zero
      [] self = Pos -> other

l3_imply(self, other) ==
    CASE self = Neg -> Pos
      [] self = Zero -> not_negative(other)
      [] self = Pos -> other

\* rm3_imply with the consequent passed through when the antecedent is Pos.
rm3_imply_without_necessary(self, other) ==
    CASE self = Neg -> Pos
      [] self = Zero -> other
      [] self = Pos -> other

rm3_imply(self, other) ==
    CASE self = Neg -> Pos
      [] self = Zero -> other
      [] self = Pos -> necessary(other)

para_imply(self, other) ==
    CASE self = Neg -> Pos
      [] OTHER -> other

ht_imply(self, other) ==
    CASE self = Neg -> Pos
      [] self = Zero -> possibly(other)
      [] self = Pos -> other

ht_not(self) ==
    CASE self = Neg -> Pos
      [] self = Zero -> Neg
      [] self = Pos -> Neg

post(self) ==
    CASE self = Neg -> Zero
      [] self = Zero -> Pos
      [] self = Pos -> Neg

pre(self) ==
    CASE self = Neg -> Pos
      [] self = Zero -> Neg
      [] self = Pos -> Zero

neg(self) ==
    CASE self = Neg -> Pos
      [] self = Zero -> Zero
      [] self = Pos -> Neg

not(self) == neg(self)

(***************************************************************************)
(* i64 arithmetic as the build performs it                                  *)
(***************************************************************************)
I64Max == 2^(IntBits - 1) - 1
I64Min == -(2^(IntBits - 1))
I64 == I64Min..I64Max

\* The two's complement value of v in IntBits bits.
wrap(v) == ((v - I64Min) % (2^IntBits)) + I64Min

\* An unchecked operation (+, * or pow step) whose exact result is v.
i64_op(v) ==
    IF v \in I64 THEN Ok(v)
    ELSE IF build = "debug" THEN Panic("arithmetic overflow")
    ELSE Ok(wrap(v))

RECURSIVE i64_pow(_, _)
i64_pow(base, exp) ==
    IF exp = 0 THEN Ok(1)
    ELSE LET acc == i64_pow(base, exp - 1)
         IN  IF IsPanic(acc) THEN acc ELSE i64_op(acc.v * base)

Abs(v) == IF v < 0 THEN -v ELSE v

signum(v) == IF v < 0 THEN -1 ELSE IF v = 0 THEN 0 ELSE 1

\* i64::abs: negating i64::MIN overflows.
\* abs that returns its argument as it is.
i64_abs_keeping_sign(v) == Ok(v)

i64_abs(v) == IF v < 0 THEN i64_op(-v) ELSE Ok(v)

(***************************************************************************)
(* Ternary (src/lib.rs): a Ternary is the sequence of its digits, most      *)
(* significant first.                                                       *)
(***************************************************************************)
log(self) == Len(self)

\* get_digit that counts the index from the left.
get_digit_from_left(self, index) ==
    IF index < Len(self) THEN Ok(self[index + 1]) ELSE [st |-> "none", v |-> ""]

\* self.digits.iter().rev().nth(index), None when there is no such digit.
get_digit(self, index) ==
    IF index < Len(self) THEN Ok(self[Len(self) - index]) ELSE [st |-> "none", v |-> ""]

RECURSIVE parse_loop(_, _, _)
parse_loop(str, i, digits) ==
    IF i > Len(str) THEN Ok(digits)
    ELSE LET d == from_char(str[i])
         IN  IF IsPanic(d) THEN d ELSE parse_loop(str, i + 1, Append(digits, d.v))

\* parse that drops the leading Zero digits.
parse_trimming(str) ==
    LET RECURSIVE strip(_)
        strip(digits) ==
            IF digits # <<>> /\ Head(digits) = Zero THEN strip(Tail(digits)) ELSE digits
        parsed == parse_loop(str, 1, <<>>)
    IN  IF IsPanic(parsed) THEN parsed ELSE Ok(strip(parsed.v))

parse(str) == parse_loop(str, 1, <<>>)

RECURSIVE to_dec_loop(_, _, _)
to_dec_loop(digits, rank, acc) ==
    IF rank >= Len(digits) THEN Ok(acc)
    ELSE LET digit == digits[Len(digits) - rank]
             power == i64_pow(3, rank)
         IN  IF IsPanic(power) THEN power
             ELSE LET term == i64_op(to_i8(digit) * power.v)
                  IN  IF IsPanic(term) THEN term
                      ELSE LET sum == i64_op(acc + term.v)
                           IN  IF IsPanic(sum) THEN sum
                               ELSE to_dec_loop(digits, rank + 1, sum.v)

to_dec(self) == to_dec_loop(self, 0, 0)

\* transform, a closure in the source, is a function from Digit to characters.
to_string_repr(self, transform) ==
    LET RECURSIVE push_from(_)
        push_from(i) ==
            IF i > Len(self) THEN <<>>
            ELSE <<transform[self[i]]>> \o push_from(i + 1)
    IN  push_from(1)

to_string(self) == to_string_repr(self, [digit \in Digit |-> to_char(digit)])

\* Ternary_neg that leaves the most significant digit as it is.
Ternary_neg_keeping_first(self) ==
    [i \in 1..Len(self) |-> IF i = 1 THEN self[i] ELSE neg(self[i])]

\* impl Neg for &Ternary (src/operations.rs): every digit negated.
Ternary_neg(self) == [i \in 1..Len(self) |-> neg(self[i])]

\* core::char::from_digit(m, 3).unwrap()
char_from_digit(m) ==
    CASE m = 0 -> Ok("0")
      [] m = 1 -> Ok("1")
      [] m = 2 -> Ok("2")
      [] OTHER -> Panic("called Option::unwrap() on a None value")

\* <u8 as FromStr>::from_str(&c.to_string()).unwrap() for the characters
\* format_radix can produce: a sign is no u8.
u8_from_str(c) ==
    CASE c = "0" -> Ok(0)
      [] c = "1" -> Ok(1)
      [] c = "2" -> Ok(2)
      [] OTHER -> Panic("called Result::unwrap() on an Err value: ParseIntError")

Reverse(seq) == [i \in 1..Len(seq) |-> seq[Len(seq) + 1 - i]]

\* The loop of format_radix: the characters pushed, least significant first.
RECURSIVE format_radix_loop(_, _)
format_radix_loop(x, radix) ==
    LET m == x % radix
        rest == x \div radix
    IN  <<char_from_digit(m).v>> \o
            (IF rest = 0 THEN <<>> ELSE format_radix_loop(rest, radix))

format_radix(x, radix) ==
    LET sign == signum(x)
        unsigned_abs == Abs(x)
    IN  (IF sign = -1 THEN <<"-">> ELSE <<>>)
            \o Reverse(format_radix_loop(unsigned_abs, radix))

\* The sweep of from_dec over the characters of str from the right, from the
\* i-th on: the digits pushed (least significant first) and the carry left.
RECURSIVE from_dec_loop(_, _, _, _)
from_dec_loop(str, i, carry, digits) ==
    IF i > Len(str) THEN Ok([digits |-> digits, carry |-> carry])
    ELSE LET parsed == u8_from_str(str[Len(str) + 1 - i])
         IN  IF IsPanic(parsed) THEN parsed
             ELSE LET digit == parsed.v + carry
                  IN  IF digit < 2
                        THEN from_dec_loop(str, i + 1, 0, Append(digits, from_i8(digit).v))
                      ELSE IF digit = 2
                        THEN from_dec_loop(str, i + 1, 1, Append(digits, from_i8(-1).v))
                      ELSE IF digit = 3
                        THEN from_dec_loop(str, i + 1, 1, Append(digits, from_i8(0).v))
                      ELSE Panic("Ternary::from_dec(): Invalid digit")

from_dec(n) ==
    LET sign == signum(n)
        magnitude == i64_abs(n)
    IN  IF IsPanic(magnitude) THEN magnitude
        ELSE LET str == format_radix(magnitude.v, 3)
                 swept == from_dec_loop(str, 1, 0, <<>>)
             IN  IF IsPanic(swept) THEN swept
                 ELSE LET pushed == IF swept.v.carry = 1
                                      THEN Append(swept.v.digits, from_i8(1).v)
                                      ELSE swept.v.digits
                          repr == Reverse(pushed)
                      IN  IF sign = -1 THEN Ok(Ternary_neg(repr)) ELSE Ok(repr)

\* with_length that adds the Zero digits on the right.
with_length_padding_right(self, length) ==
    IF length < log(self) THEN self
    ELSE self \o [i \in 1..(length - log(self)) |-> Zero]

with_length(self, length) ==
    IF length < log(self) THEN self
    ELSE [i \in 1..(length - log(self)) |-> Zero] \o self

\* each_zip once self is known to be at least as long as other.
\* f, a closure in the source, is a function from pairs of Digits to Digit.
each_zip_longer(self, f, other) ==
    LET padded == with_length(other, Len(self))
        RECURSIVE push_from(_)
        \* the digits pushed from index i (counted from the right) on
        push_from(i) ==
            IF i >= Len(self) THEN <<>>
            ELSE <<f[<<self[Len(self) - i], get_digit(padded, i).v>>]>> \o push_from(i + 1)
        pushed == push_from(0)
    IN  [i \in 1..Len(pushed) |-> pushed[Len(pushed) + 1 - i]]

each_zip(self, f, other) ==
    IF Len(self) < Len(other) THEN each_zip_longer(other, f, self)
    ELSE each_zip_longer(self, f, other)

(***************************************************************************)
(* Digit arithmetic and connectives (src/digit.rs)                          *)
(***************************************************************************)
\* inc with the two digits of the overflow in the wrong order.
inc_overflow_reversed(self) ==
    CASE self = Neg -> <<Zero>>
      [] self = Zero -> <<Pos>>
      [] self = Pos -> <<Neg, Pos>>

inc(self) ==
    CASE self = Neg -> parse(<<"0">>).v
      [] self = Zero -> parse(<<"+">>).v
      [] self = Pos -> parse(<<"+", "-">>).v

dec(self) ==
    CASE self = Neg -> parse(<<"-", "+">>).v
      [] self = Zero -> parse(<<"-">>).v
      [] self = Pos -> parse(<<"0">>).v

Digit_add(self, other) ==
    CASE self = Neg -> dec(other)
      [] self = Zero -> <<other>>
      [] self = Pos -> inc(other)

Digit_sub(self, other) ==
    CASE self = Neg -> inc(other)
      [] self = Zero -> <<neg(other)>>
      [] self = Pos -> dec(other)

\* Digit_mul that forgets to negate for a Neg receiver.
Digit_mul_without_negation(self, other) ==
    CASE self = Neg -> other
      [] self = Zero -> Zero
      [] self = Pos -> other

Digit_mul(self, other) ==
    CASE self = Neg -> neg(other)
      [] self = Zero -> Zero
      [] self = Pos -> other

\* Digit_div that checks the receiver, not the divisor.
Digit_div_checks_receiver(self, other) ==
    IF self = Zero THEN Panic("Cannot divide by zero.")
    ELSE Ok(Digit_mul(self, other))

Digit_div(self, other) ==
    IF other = Zero THEN Panic("Cannot divide by zero.")
    ELSE Ok(Digit_mul(self, other))

\* Digit_bitand whose Zero receiver always gives Zero.
Digit_bitand_zero_absorbs(self, other) ==
    CASE self = Neg -> Neg
      [] self = Zero -> Zero
      [] self = Pos -> other

Digit_bitand(self, other) ==
    CASE self = Neg -> Neg
      [] self = Zero -> negative(other)
      [] self = Pos -> other

Digit_bitor(self, other) ==
    CASE self = Neg -> other
      [] self = Zero -> positive(other)
      [] self = Pos -> Pos

Digit_bitxor(self, other) ==
    CASE self = Neg -> other
      [] self = Zero -> Zero
      [] self = Pos -> neg(other)

(***************************************************************************)
(* Ternary operators (src/operations.rs)                                    *)
(***************************************************************************)
Some(val) == [st |-> "some", v |-> val]
None == [st |-> "none", v |-> ""]

checked_add(p, q) == IF p + q \in I64 THEN Some(p + q) ELSE None

checked_sub(p, q) == IF p - q \in I64 THEN Some(p - q) ELSE None

checked_mul(p, q) == IF p * q \in I64 THEN Some(p * q) ELSE None

\* i64 division truncates toward zero; None for a zero divisor and for
\* i64::MIN / -1.
checked_div(p, q) ==
    IF q = 0 THEN None
    ELSE LET quotient == signum(p) * signum(q) * (Abs(p) \div Abs(q))
         IN  IF quotient \in I64 THEN Some(quotient) ELSE None

expect(option, msg) == IF option.st = "some" THEN Ok(option.v) ELSE Panic(msg)

\* Ternary::from_dec(...) of an expected value: a panic on the way is kept.
from_dec_of(expected) == IF IsPanic(expected) THEN expected ELSE from_dec(expected.v)

\* Each operator: both operands to decimal (self first), the checked
\* operation, expect, from_dec.
Ternary_add(self, other) ==
    LET left == to_dec(self)
        right == to_dec(other)
    IN  IF IsPanic(left) THEN left
        ELSE IF IsPanic(right) THEN right
        ELSE from_dec_of(expect(checked_add(left.v, right.v), "Overflow in addition."))

Ternary_sub(self, other) ==
    LET left == to_dec(self)
        right == to_dec(other)
    IN  IF IsPanic(left) THEN left
        ELSE IF IsPanic(right) THEN right
        ELSE from_dec_of(expect(checked_sub(left.v, right.v), "Overflow in subtraction."))

Ternary_mul(self, other) ==
    LET left == to_dec(self)
        right == to_dec(other)
    IN  IF IsPanic(left) THEN left
        ELSE IF IsPanic(right) THEN right
        ELSE from_dec_of(expect(checked_mul(left.v, right.v), "Overflow in multiplication."))

Ternary_div(self, other) ==
    LET left == to_dec(self)
        right == to_dec(other)
    IN  IF IsPanic(left) THEN left
        ELSE IF IsPanic(right) THEN right
        ELSE from_dec_of(expect(checked_div(left.v, right.v),
                                "Overflow in division or division by zero."))

(***************************************************************************)
(* Digit-wise operators of Ternary (src/lib.rs, src/operations.rs)          *)
(***************************************************************************)
\* each_zip_carry once self is known to be at least as long as other.  f, a
\* closure in the source, is a function from triples <<digit of self, digit
\* of other, carry>> to pairs <<carry, digit>>.
each_zip_carry_longer(self, f, other) ==
    LET padded == with_length(other, Len(self))
        RECURSIVE sweep(_, _)
        \* the digits pushed from index i (counted from the right) on, carry
        \* being the carry that comes in
        sweep(i, carry) ==
            IF i >= Len(self) THEN <<>>
            ELSE LET returned == f[<<self[Len(self) - i], get_digit(padded, i).v, carry>>]
                 IN  <<returned[2]>> \o sweep(i + 1, returned[1])
    IN  Reverse(sweep(0, Zero))

\* each_zip_carry that keeps the carry left at the end as a leading digit.
each_zip_carry_keeping_carry(self, f, other) ==
    LET long == IF Len(self) < Len(other) THEN other ELSE self
        short == IF Len(self) < Len(other) THEN self ELSE other
        padded == with_length(short, Len(long))
        RECURSIVE sweep(_, _)
        sweep(i, carry) ==
            IF i >= Len(long) THEN <<carry>>
            ELSE LET returned == f[<<long[Len(long) - i], get_digit(padded, i).v, carry>>]
                 IN  <<returned[2]>> \o sweep(i + 1, returned[1])
    IN  Reverse(sweep(0, Zero))

each_zip_carry(self, f, other) ==
    IF Len(self) < Len(other) THEN each_zip_carry_longer(other, f, self)
    ELSE each_zip_carry_longer(self, f, other)

\* rhs.get_digit(i).unwrap_or(&Digit::Zero)
unwrap_or_Zero(option) == IF IsOk(option) THEN option.v ELSE Zero

\* The loop the three bitwise operators share, self at least as long as other (rhs);
\* connective is the Digit operator applied, as a function of the pair.
bitwise_longer(self, other, connective) ==
    LET RECURSIVE push_from(_)
        push_from(i) ==
            IF i >= Len(self) THEN <<>>
            ELSE <<connective[<<self[Len(self) - i], unwrap_or_Zero(get_digit(other, i))>>]>>
                     \o push_from(i + 1)
    IN  Reverse(push_from(0))

\* Ternary_bitand that aligns the operands on their most significant digits.
Ternary_bitand_left_aligned(self, other) ==
    LET long == IF log(self) < log(other) THEN other ELSE self
        short == IF log(self) < log(other) THEN self ELSE other
    IN  [i \in 1..Len(long) |->
            Digit_bitand(long[i], IF i <= Len(short) THEN short[i] ELSE Zero)]

Ternary_bitand(self, other) ==
    LET connective == [pair \in Digit \X Digit |-> Digit_bitand(pair[1], pair[2])]
    IN  IF log(self) < log(other) THEN bitwise_longer(other, self, connective)
        ELSE bitwise_longer(self, other, connective)

Ternary_bitor(self, other) ==
    LET connective == [pair \in Digit \X Digit |-> Digit_bitor(pair[1], pair[2])]
    IN  IF log(self) < log(other) THEN bitwise_longer(other, self, connective)
        ELSE bitwise_longer(self, other, connective)

Ternary_bitxor(self, other) ==
    LET connective == [pair \in Digit \X Digit |-> Digit_bitxor(pair[1], pair[2])]
    IN  IF log(self) < log(other) THEN bitwise_longer(other, self, connective)
        ELSE bitwise_longer(self, other, connective)

(***************************************************************************)
(* trim, the unbalanced text and FromStr (src/lib.rs)                       *)
(***************************************************************************)
\* The loop of trim: the digits kept from the i-th on.
RECURSIVE trim_loop(_, _, _, _)
trim_loop(digits, i, first_digit, repr) ==
    IF i > Len(digits) THEN repr
    ELSE LET seen == first_digit \/ digits[i] # Zero
         IN  trim_loop(digits, i + 1, seen, IF seen THEN Append(repr, digits[i]) ELSE repr)

trim(self) ==
    LET value == to_dec(self)
    IN  IF IsPanic(value) THEN value
        ELSE IF value.v = 0 THEN parse(<<"0">>)
        ELSE Ok(trim_loop(self, 1, FALSE, <<>>))

to_unbalanced(self) ==
    LET value == to_dec(self)
    IN  IF IsPanic(value) THEN value ELSE Ok(format_radix(value.v, 3))

\* A Result: Ok(value) or Err(error).
ResultOk(val) == [st |-> "Ok", v |-> val]
ResultErr(error) == [st |-> "Err", v |-> error]

\* Result::unwrap
unwrap(result) ==
    IF result.st = "Ok" THEN Ok(result.v)
    ELSE Panic("called Result::unwrap() on an Err value")

\* char::to_digit(3): the digit a character stands for, -1 when none.
to_digit(c) ==
    CASE c = "0" -> 0
      [] c = "1" -> 1
      [] c = "2" -> 2
      [] OTHER -> -1

\* The checked accumulation of i64::from_str_radix over the characters from
\* the i-th on: times the radix, then plus (or, after a '-', minus) the digit.
RECURSIVE from_str_radix_loop(_, _, _, _, _)
from_str_radix_loop(src, i, radix, sign, acc) ==
    IF i > Len(src) THEN ResultOk(acc)
    ELSE IF to_digit(src[i]) = -1 THEN ResultErr("InvalidDigit")
    ELSE LET next == acc * radix + sign * to_digit(src[i])
         IN  IF acc * radix \notin I64 \/ next \notin I64
               THEN ResultErr(IF sign = 1 THEN "PosOverflow" ELSE "NegOverflow")
             ELSE from_str_radix_loop(src, i + 1, radix, sign, next)

\* i64::from_str_radix: an optional sign, then at least one digit.
from_str_radix(src, radix) ==
    IF src = <<>> THEN ResultErr("Empty")
    ELSE IF src \in {<<"+">>, <<"-">>} THEN ResultErr("InvalidDigit")
    ELSE IF src[1] = "-" THEN from_str_radix_loop(src, 2, radix, -1, 0)
    ELSE IF src[1] = "+" THEN from_str_radix_loop(src, 2, radix, 1, 0)
    ELSE from_str_radix_loop(src, 1, radix, 1, 0)

from_unbalanced(unbalanced) ==
    LET parsed == unwrap(from_str_radix(unbalanced, 3))
    IN  IF IsPanic(parsed) THEN parsed ELSE from_dec(parsed.v)

\* from_str whose error names the first character that is no digit.
from_str_naming_character(str) ==
    IF \A i \in 1..Len(str) : str[i] \in {"+", "0", "-"}
      THEN LET parsed == parse(str)
           IN  IF IsPanic(parsed) THEN parsed ELSE Ok(ResultOk(parsed.v))
    ELSE LET bad == CHOOSE i \in 1..Len(str) :
                        /\ str[i] \notin {"+", "0", "-"}
                        /\ \A j \in 1..(i - 1) : str[j] \in {"+", "0", "-"}
         IN  Ok(ResultErr(<<"ParseTernaryError", str[bad]>>))

\* from_str that looks at the first character only.
from_str_checking_first(str) ==
    IF str = <<>> \/ str[1] \in {"+", "0", "-"}
      THEN LET parsed == parse(str)
           IN  IF IsPanic(parsed) THEN parsed ELSE Ok(ResultOk(parsed.v))
    ELSE Ok(ResultErr("ParseTernaryError"))

\* impl FromStr for Ternary
from_str(str) ==
    IF \A i \in 1..Len(str) : str[i] \in {"+", "0", "-"}
      THEN LET parsed == parse(str)
           IN  IF IsPanic(parsed) THEN parsed ELSE Ok(ResultOk(parsed.v))
    ELSE Ok(ResultErr("ParseTernaryError"))

(***************************************************************************)
(* The calls                                                                *)
(***************************************************************************)
Builds == {"debug", "release"}

\* One call: it happens once, on the arguments drawn, and leaves them alone.
Call(name, result) ==
    /\ op = "none"
    /\ op' = name
    /\ out' = result
    /\ UNCHANGED <<build, lhs, rhs, tern, tern2, num, text, closure, data>>

\* Unary Digit operators, applied to lhs.
CallPossibly == Call("possibly", Ok(possibly(lhs)))
CallNecessary == Call("necessary", Ok(necessary(lhs)))
CallContingently == Call("contingently", Ok(contingently(lhs)))
CallHtNot == Call("ht_not", Ok(ht_not(lhs)))
CallPost == Call("post", Ok(post(lhs)))
CallPre == Call("pre", Ok(pre(lhs)))
CallNeg == Call("neg", Ok(neg(lhs)))
CallNot == Call("not", Ok(not(lhs)))
CallAbsolutePositive == Call("absolute_positive", Ok(absolute_positive(lhs)))
CallPositive == Call("positive", Ok(positive(lhs)))
CallNotNegative == Call("not_negative", Ok(not_negative(lhs)))
CallNotPositive == Call("not_positive", Ok(not_positive(lhs)))
CallNegative == Call("negative", Ok(negative(lhs)))
CallAbsoluteNegative == Call("absolute_negative", Ok(absolute_negative(lhs)))

\* Binary Digit operators, lhs the receiver and rhs the argument.
CallK3Equiv == Call("k3_equiv", Ok(k3_equiv(lhs, rhs)))
CallK3Imply == Call("k3_imply", Ok(k3_imply(lhs, rhs)))
CallBi3And == Call("bi3_and", Ok(bi3_and(lhs, rhs)))
CallBi3Or == Call("bi3_or", Ok(bi3_or(lhs, rhs)))
CallBi3Imply == Call("bi3_imply", Ok(bi3_imply(lhs, rhs)))
CallL3Imply == Call("l3_imply", Ok(l3_imply(lhs, rhs)))
CallRm3Imply == Call("rm3_imply", Ok(rm3_imply(lhs, rhs)))
CallParaImply == Call("para_imply", Ok(para_imply(lhs, rhs)))
CallHtImply == Call("ht_imply", Ok(ht_imply(lhs, rhs)))
CallDigitAdd == Call("Digit_add", Ok(Digit_add(lhs, rhs)))
CallDigitSub == Call("Digit_sub", Ok(Digit_sub(lhs, rhs)))
CallDigitMul == Call("Digit_mul", Ok(Digit_mul(lhs, rhs)))
CallDigitDiv == Call("Digit_div", Digit_div(lhs, rhs))
CallDigitBitAnd == Call("Digit_bitand", Ok(Digit_bitand(lhs, rhs)))
CallDigitBitOr == Call("Digit_bitor", Ok(Digit_bitor(lhs, rhs)))
CallDigitBitXor == Call("Digit_bitxor", Ok(Digit_bitxor(lhs, rhs)))

InitDigit ==
    /\ build \in Builds
    /\ op = "none"
    /\ lhs \in Digit
    /\ rhs \in Digit
    /\ tern = <<>>
    /\ tern2 = <<>>
    /\ num = 0
    /\ text = <<>>
    /\ closure = "none"
    /\ data = <<>>
    /\ out = NoCall

NextDigit ==
    \/ CallPossibly \/ CallNecessary \/ CallContingently \/ CallHtNot
    \/ CallPost \/ CallPre \/ CallNeg \/ CallNot
    \/ CallAbsolutePositive \/ CallPositive \/ CallNotNegative
    \/ CallNotPositive \/ CallNegative \/ CallAbsoluteNegative
    \/ CallK3Equiv \/ CallK3Imply \/ CallBi3And \/ CallBi3Or \/ CallBi3Imply
    \/ CallL3Imply \/ CallRm3Imply \/ CallParaImply \/ CallHtImply
    \/ CallDigitAdd \/ CallDigitSub \/ CallDigitMul \/ CallDigitDiv
    \/ CallDigitBitAnd \/ CallDigitBitOr \/ CallDigitBitXor

SpecDigit == InitDigit /\ [][NextDigit]_vars

(***************************************************************************)
(* Properties of the Digit algebra                                          *)
(***************************************************************************)
\* The order in which the tables list the digits, and the pairs of digits:
\* (-,-), (-,0), (-,+), (0,-), (0,0), (0,+), (+,-), (+,0), (+,+).
TableOrder == <<Neg, Zero, Pos>>
Column(d) == CHOOSE i \in 1..3 : TableOrder[i] = d
PairColumn(d, e) == 3 * (Column(d) - 1) + Column(e)

C4_Tables ==
    [ k3_equiv |-> <<"+", "0", "-", "0", "0", "0", "-", "0", "+">>,
      k3_imply |-> <<"+", "+", "+", "0", "0", "+", "-", "0", "+">>,
      bi3_and |-> <<"-", "0", "-", "0", "0", "0", "-", "0", "+">>,
      bi3_or |-> <<"-", "0", "+", "0", "0", "0", "+", "0", "+">>,
      bi3_imply |-> <<"+", "0", "+", "0", "0", "0", "-", "0", "+">>,
      l3_imply |-> <<"+", "+", "+", "0", "+", "+", "-", "0", "+">>,
      rm3_imply |-> <<"+", "+", "+", "-", "0", "+", "-", "-", "+">>,
      para_imply |-> <<"+", "+", "+", "-", "0", "+", "-", "0", "+">>,
      ht_imply |-> <<"+", "+", "+", "-", "+", "+", "-", "0", "+">> ]

\* C4: for the 9 pairs (a, b) in table order, a the receiver and b the
\* argument, each implication/equivalence operator returns the digit its
\* table lists for that pair.
C4_ImplicationTables ==
    op \in DOMAIN C4_Tables =>
        IsOk(out) /\ to_char(out.v) = C4_Tables[op][PairColumn(lhs, rhs)]

\* C4 witness: rm3_imply was applied to (+, 0) and returned Neg.
C4_Witness ==
    op = "rm3_imply" /\ lhs = Pos /\ rhs = Zero /\ out = Ok(Neg)

C5_Tables ==
    [ Digit_bitand |-> <<"-", "-", "-", "-", "0", "0", "-", "0", "+">>,
      Digit_bitor |-> <<"-", "0", "+", "0", "0", "+", "+", "+", "+">>,
      Digit_bitxor |-> <<"-", "0", "+", "0", "0", "0", "+", "0", "-">> ]

\* C5: for the 9 pairs (a, b) in table order, a & b, a | b and a ^ b return
\* the digit their table lists; applied position by position to "---000+++"
\* and "-0+-0+-0+", `and` gives "----00-0+".
C5_ConnectiveTables ==
    /\ op \in DOMAIN C5_Tables =>
           IsOk(out) /\ to_char(out.v) = C5_Tables[op][PairColumn(lhs, rhs)]
    /\ to_string(each_zip(parse(<<"-", "-", "-", "0", "0", "0", "+", "+", "+">>).v,
                          [pair \in Digit \X Digit |-> Digit_bitand(pair[1], pair[2])],
                          parse(<<"-", "0", "+", "-", "0", "+", "-", "0", "+">>).v))
           = <<"-", "-", "-", "-", "0", "0", "-", "0", "+">>

\* C5 witness: Zero & Neg was computed and gave Neg.
C5_Witness ==
    op = "Digit_bitand" /\ lhs = Zero /\ rhs = Neg /\ out = Ok(Neg)

C6_Tables ==
    [ possibly |-> <<"-", "+", "+">>,
      necessary |-> <<"-", "-", "+">>,
      contingently |-> <<"-", "+", "-">>,
      ht_not |-> <<"+", "-", "-">>,
      post |-> <<"0", "+", "-">>,
      pre |-> <<"+", "-", "0">>,
      neg |-> <<"+", "0", "-">>,
      not |-> <<"+", "0", "-">>,
      absolute_positive |-> <<"+", "0", "+">>,
      positive |-> <<"0", "0", "+">>,
      not_negative |-> <<"0", "+", "+">>,
      not_positive |-> <<"-", "-", "0">>,
      negative |-> <<"-", "0", "0">>,
      absolute_negative |-> <<"-", "0", "-">> ]

\* C6: each unary operator returns, for Neg, Zero, Pos in that order, the
\* three digits its table lists.
C6_UnaryTables ==
    op \in DOMAIN C6_Tables =>
        IsOk(out) /\ to_char(out.v) = C6_Tables[op][Column(lhs)]

\* C6 witness: not_positive was applied to Zero and returned Neg.
C6_Witness ==
    op = "not_positive" /\ lhs = Zero /\ out = Ok(Neg)

C7_Table ==
    << <<"-", "+">>, <<"-">>, <<"0">>, <<"-">>, <<"0">>, <<"+">>, <<"0">>, <<"+">>, <<"+", "-">> >>

\* C7: a + b is the short Ternary the addition table lists for (a, b); it is
\* one of "-+", "-", "0", "+", "+-" and its decimal value is
\* a.to_i8() + b.to_i8().
C7_DigitAddTable ==
    op = "Digit_add" =>
        /\ IsOk(out)
        /\ to_string(out.v) = C7_Table[PairColumn(lhs, rhs)]
        /\ to_string(out.v) \in {<<"-", "+">>, <<"-">>, <<"0">>, <<"+">>, <<"+", "-">>}
        /\ to_dec(out.v) = Ok(to_i8(lhs) + to_i8(rhs))

\* C7 witness: Pos + Pos was computed and overflowed into "+-".
C7_Witness ==
    op = "Digit_add" /\ lhs = Pos /\ rhs = Pos /\ out = Ok(<<Pos, Neg>>)

\* C8: a - b returns the same Ternary, digit for digit, as a + (-b).
C8_SubIsAddOfNegation ==
    op = "Digit_sub" => IsOk(out) /\ out.v = Digit_add(lhs, neg(rhs))

\* C9: digit multiplication is the sign product: (a * b).to_i8() is
\* a.to_i8() * b.to_i8(), a * b = b * a, and a * b is Zero whenever a or b is.
C9_MulIsSignProduct ==
    op = "Digit_mul" =>
        /\ IsOk(out)
        /\ to_i8(out.v) = to_i8(lhs) * to_i8(rhs)
        /\ out.v = Digit_mul(rhs, lhs)
        /\ (lhs = Zero \/ rhs = Zero) => out.v = Zero

\* C9 witness: Neg * Neg was computed and gave Pos.
C9_Witness ==
    op = "Digit_mul" /\ lhs = Neg /\ rhs = Neg /\ out = Ok(Pos)

\* C10: a / b panics with "Cannot divide by zero." exactly when b is Zero,
\* whatever a is; for every other b it returns the digit a * b.
C10_DivPanicsOnZeroOnly ==
    op = "Digit_div" =>
        /\ IsPanic(out) <=> rhs = Zero
        /\ IsPanic(out) => out.v = "Cannot divide by zero."
        /\ rhs # Zero => IsOk(out) /\ out.v = Digit_mul(lhs, rhs)

\* C10 witness: Zero / Zero was called and panicked.
C10_Witness ==
    op = "Digit_div" /\ lhs = Zero /\ rhs = Zero /\ IsPanic(out)

(***************************************************************************)
(* Decimal conversion: from_dec on every i64                                *)
(***************************************************************************)
CallFromDec == Call("from_dec", from_dec(num))
CallFormatRadix == Call("format_radix", Ok(format_radix(num, 3)))

InitDec ==
    /\ build \in Builds
    /\ op = "none"
    /\ lhs = Zero
    /\ rhs = Zero
    /\ tern = <<>>
    /\ tern2 = <<>>
    /\ num \in I64
    /\ text = <<>>
    /\ closure = "none"
    /\ data = <<>>
    /\ out = NoCall

NextDec == CallFromDec \/ CallFormatRadix

SpecDec == InitDec /\ [][NextDec]_vars

\* C1: for every i64 n other than i64::MIN, from_dec(n).to_dec() is n.
C1_DecRoundTrip ==
    (op = "from_dec" /\ num # I64Min) =>
        /\ IsOk(out)
        /\ LET back == to_dec(out.v) IN IsOk(back) /\ back.v = num

(***************************************************************************)
(* Text: parse on every short text                                          *)
(***************************************************************************)
\* The characters texts are made of: the three digits and two that are none.
Chars == {"+", "0", "-", "x", "y"}
Texts == UNION {[1..len -> Chars] : len \in 0..MaxStrLen}
Valid(str) == \A i \in 1..Len(str) : str[i] \in {"+", "0", "-"}

CallParse == Call("parse", parse(text))
CallFromStr == Call("from_str", from_str(text))

InitText ==
    /\ build \in Builds
    /\ op = "none"
    /\ lhs = Zero
    /\ rhs = Zero
    /\ tern = <<>>
    /\ tern2 = <<>>
    /\ num = 0
    /\ text \in Texts
    /\ closure = "none"
    /\ data = <<>>
    /\ out = NoCall

NextText == CallParse \/ CallFromStr

SpecText == InitText /\ [][NextText]_vars

\* C2: for every text s made only of '+', '0' and '-', parse(s).to_string()
\* is s: one digit per character, in the order given, leading '0' kept.
C2_ParseRoundTrip ==
    (op = "parse" /\ Valid(text)) =>
        /\ IsOk(out)
        /\ Len(out.v) = Len(text)
        /\ \A i \in 1..Len(text) : to_char(out.v[i]) = text[i]
        /\ to_string(out.v) = text

\* C2 witness: a text with a leading '0' was parsed and the Zero was kept.
C2_Witness ==
    op = "parse" /\ text = <<"0", "+", "-">> /\ out = Ok(<<Zero, Pos, Neg>>)

\* C20: from_str(s) returns Err(ParseTernaryError) exactly when s holds a
\* character other than '+', '0', '-'; otherwise it returns Ok with the
\* digits parse(s) gives; it panics on no text.
C20_FromStrRejectsOtherCharacters ==
    op = "from_str" =>
        /\ IsOk(out)
        /\ out.v.st = "Err" <=> ~Valid(text)
        /\ out.v.st = "Err" => out.v = ResultErr("ParseTernaryError")
        /\ Valid(text) => out.v = ResultOk(parse(text).v)

\* C20 witness: from_str was called on "+x", whose first character is a
\* digit and whose second is not, and returned the error.
C20_Witness ==
    /\ op = "from_str" /\ text = <<"+", "x">>
    /\ out = Ok(ResultErr("ParseTernaryError"))

\* Where a text that is not all digits first goes wrong, and on what.
Offending(str) ==
    LET bad == CHOOSE i \in 1..Len(str) :
                   /\ str[i] \notin {"+", "0", "-"}
                   /\ \A j \in 1..(i - 1) : str[j] \in {"+", "0", "-"}
    IN  <<bad, str[bad]>>

\* The texts of one or two characters that from_str rejects.
Rejected == {other \in UNION {[1..len -> Chars] : len \in 1..2} : ~Valid(other)}

\* C21 as stated: when from_str fails, the error carries the offending
\* character or its position, so two texts that go wrong on different
\* characters or at different positions get distinguishable errors.
C21_ErrorTellsWhere ==
    (op = "from_str" /\ ~Valid(text)) =>
        \A other \in Rejected :
            Offending(other) # Offending(text) => from_str(other) # out

\* C21: when from_str fails, the error is the one ParseTernaryError value,
\* which carries neither the character nor the position: every rejected
\* text gets an error equal to every other's.
C21_ErrorIsOneValue ==
    (op = "from_str" /\ ~Valid(text)) =>
        /\ IsOk(out) /\ out.v.st = "Err"
        /\ \A other \in Rejected : from_str(other) = out

\* C21 witness: from_str failed on "+y", which goes wrong at its second
\* character, and returned what it returns for "x".
C21_Witness ==
    /\ op = "from_str" /\ text = <<"+", "y">>
    /\ out.v.st = "Err" /\ out = from_str(<<"x">>)

(***************************************************************************)
(* Ternary operators on pairs of operands                                   *)
(***************************************************************************)
RECURSIVE Pow3(_)
Pow3(k) == IF k = 0 THEN 1 ELSE 3 * Pow3(k - 1)

\* The number of digits to_dec can weigh: 3^(FitDigits - 1) is the largest
\* power of 3 in the accumulator's range (40 digits for the 64-bit i64).
FitDigits == CHOOSE k \in 1..IntBits : Pow3(k - 1) <= I64Max /\ Pow3(k) > I64Max
\* The largest value of FitDigits digits.
MaxFit == (Pow3(FitDigits) - 1) \div 2

ShortTernaries == UNION {[1..len -> Digit] : len \in 0..MaxLen}
\* Values near the ends of the accumulator's range, near the largest value
\* to_dec can weigh, and near what separates the two.
BoundaryInts ==
    {sign * (base + k) : sign \in {-1, 1}, base \in {I64Max, MaxFit, I64Max - MaxFit},
                         k \in (-Near)..Near} \cap (I64 \ {I64Min})
LongTernaries == {from_dec(v).v : v \in BoundaryInts}
Operands ==
    ShortTernaries \cup LongTernaries \cup {<<Zero>> \o t : t \in LongTernaries}

CallTernaryAdd == Call("Ternary_add", Ternary_add(tern, tern2))
CallTernarySub == Call("Ternary_sub", Ternary_sub(tern, tern2))
CallTernaryMul == Call("Ternary_mul", Ternary_mul(tern, tern2))
CallTernaryDiv == Call("Ternary_div", Ternary_div(tern, tern2))

InitArith ==
    /\ build \in Builds
    /\ op = "none"
    /\ lhs = Zero
    /\ rhs = Zero
    /\ \E pair \in Operands \X Operands :
           /\ tern = pair[1]
           /\ tern2 = pair[2]
    /\ num = 0
    /\ text = <<>>
    /\ closure = "none"
    /\ data = <<>>
    /\ out = NoCall

NextArith == CallTernaryAdd \/ CallTernarySub \/ CallTernaryMul \/ CallTernaryDiv

SpecArith == InitArith /\ [][NextArith]_vars

\* The checked i64 operation each operator stands for.
Checked(name, p, q) ==
    CASE name = "Ternary_add" -> checked_add(p, q)
      [] name = "Ternary_sub" -> checked_sub(p, q)
      [] name = "Ternary_mul" -> checked_mul(p, q)
      [] name = "Ternary_div" -> checked_div(p, q)

ArithOps == {"Ternary_add", "Ternary_sub", "Ternary_mul", "Ternary_div"}

\* C3: for operands a and b with decimal values a.to_dec() and b.to_dec(),
\* each of +, -, *, / panics exactly when the checked i64 operation on the
\* two values has no result (overflow, or a zero divisor), and otherwise
\* returns from_dec of that result.
C3_ArithIsCheckedDecimal ==
    (op \in ArithOps /\ IsOk(to_dec(tern)) /\ IsOk(to_dec(tern2))) =>
        LET result == Checked(op, to_dec(tern).v, to_dec(tern2).v)
        IN  /\ IsPanic(out) <=> result = None
            /\ result # None => out = from_dec(result.v)

(***************************************************************************)
(* Digit-wise operators on pairs of Ternaries                               *)
(***************************************************************************)
\* The closures passed to each_zip, by name: two implications, which are not
\* commutative, and the product, which is.
ZipClosures == {"k3_imply", "ht_imply", "Digit_mul"}

zip_closure(name) ==
    CASE name = "k3_imply" -> [pair \in Digit \X Digit |-> k3_imply(pair[1], pair[2])]
      [] name = "ht_imply" -> [pair \in Digit \X Digit |-> ht_imply(pair[1], pair[2])]
      [] name = "Digit_mul" -> [pair \in Digit \X Digit |-> Digit_mul(pair[1], pair[2])]

\* The closures passed to each_zip_carry, by name.  full_adder is the
\* balanced addition of two digits and a carry; carry_shift hands its first
\* digit on as the carry and returns the carry it received as the digit.
CarryClosures == {"full_adder", "carry_shift"}

full_adder(d1, d2, carry) ==
    LET sum == to_i8(d1) + to_i8(d2) + to_i8(carry)
    IN  CASE sum = 2 -> <<Pos, Neg>>
          [] sum = 3 -> <<Pos, Zero>>
          [] sum = -2 -> <<Neg, Pos>>
          [] sum = -3 -> <<Neg, Zero>>
          [] OTHER -> <<Zero, from_i8(sum).v>>

carry_closure(name) ==
    CASE name = "full_adder" ->
             [t \in Digit \X Digit \X Digit |-> full_adder(t[1], t[2], t[3])]
      [] name = "carry_shift" ->
             [t \in Digit \X Digit \X Digit |-> <<t[1], t[3]>>]

CallEachZip ==
    /\ closure \in ZipClosures
    /\ Call("each_zip", Ok(each_zip(tern, zip_closure(closure), tern2)))

CallEachZipCarry ==
    /\ closure \in CarryClosures
    /\ Call("each_zip_carry", Ok(each_zip_carry(tern, carry_closure(closure), tern2)))

CallTernaryBitAnd ==
    /\ closure = "none"
    /\ Call("Ternary_bitand", Ok(Ternary_bitand(tern, tern2)))

CallTernaryBitOr ==
    /\ closure = "none"
    /\ Call("Ternary_bitor", Ok(Ternary_bitor(tern, tern2)))

CallTernaryBitXor ==
    /\ closure = "none"
    /\ Call("Ternary_bitxor", Ok(Ternary_bitxor(tern, tern2)))

InitZip ==
    /\ build \in Builds
    /\ op = "none"
    /\ lhs = Zero
    /\ rhs = Zero
    /\ tern \in ShortTernaries
    /\ tern2 \in ShortTernaries
    /\ num = 0
    /\ text = <<>>
    /\ closure \in ZipClosures \cup CarryClosures \cup {"none"}
    /\ data = <<>>
    /\ out = NoCall

NextZip ==
    \/ CallEachZip \/ CallEachZipCarry
    \/ CallTernaryBitAnd \/ CallTernaryBitOr \/ CallTernaryBitXor

SpecZip == InitZip /\ [][NextZip]_vars

\* The digit of v at position i counted from the right, Zero where v has none.
DigitAt(v, i) == IF i < Len(v) THEN v[Len(v) - i] ELSE Zero

Max(a, b) == IF a < b THEN b ELSE a

\* The operand each_zip walks (the longer one, self when the lengths are
\* equal) and the one it pads.
Walked(a, b) == IF Len(a) < Len(b) THEN b ELSE a
Padded(a, b) == IF Len(a) < Len(b) THEN a ELSE b

\* C11: every digit of self.each_zip(f, other) is f(d_self, d_other), d_self
\* the digit of self at that position and d_other the digit of other at the
\* same position counted from the right, whatever the two lengths and also
\* for an f that is not commutative.
C11_EachZipKeepsArgumentOrder ==
    op = "each_zip" =>
        /\ IsOk(out)
        /\ \A i \in 0..(Len(out.v) - 1) :
               DigitAt(out.v, i) = zip_closure(closure)[<<DigitAt(tern, i), DigitAt(tern2, i)>>]

Connective(name) ==
    CASE name = "Ternary_bitand" -> [pair \in Digit \X Digit |-> Digit_bitand(pair[1], pair[2])]
      [] name = "Ternary_bitor" -> [pair \in Digit \X Digit |-> Digit_bitor(pair[1], pair[2])]
      [] name = "Ternary_bitxor" -> [pair \in Digit \X Digit |-> Digit_bitxor(pair[1], pair[2])]

BitwiseOps == {"Ternary_bitand", "Ternary_bitor", "Ternary_bitxor"}

\* C13: &a & &b, &a | &b and &a ^ &b are a.each_zip of the Digit connective
\* with b: digit by digit from the right, the shorter operand padded on the
\* left with Zero, as many digits as the longer operand has.
C13_BitwiseIsEachZip ==
    op \in BitwiseOps =>
        /\ IsOk(out)
        /\ out.v = each_zip(tern, Connective(op), tern2)
        /\ Len(out.v) = Max(log(tern), log(tern2))
        /\ \A i \in 0..(Len(out.v) - 1) :
               DigitAt(out.v, i) =
                   Connective(op)[<<DigitAt(Walked(tern, tern2), i),
                                    DigitAt(Padded(tern, tern2), i)>>]

\* C13 witness: "+-" & "+" gave "0-": the "+" met the last digit.
C13_Witness ==
    /\ op = "Ternary_bitand"
    /\ tern = <<Pos, Neg>> /\ tern2 = <<Pos>>
    /\ out = Ok(<<Zero, Neg>>)

MinTernary ==
    LET last == CHOOSE d \in {-1, 0, 1} : (I64Min - d) % 3 = 0
    IN  from_dec((I64Min - last) \div 3).v \o <<from_i8(last).v>>

\* The receivers: the operands of the operators, the Ternary of i64::MIN, and
\* one Ternary of Zero digits only that is one digit longer than to_dec can
\* weigh.
Receivers == Operands \cup {MinTernary, [i \in 1..(FitDigits + 1) |-> Zero]}
\* The lengths and indices given: up to one past the longest receiver.
Lengths == 0..(FitDigits + 3)

CallTrim == Call("trim", trim(tern))
CallWithLength == Call("with_length", Ok(with_length(tern, num)))
CallGetDigit == Call("get_digit", Ok(get_digit(tern, num)))
CallTernaryNeg == Call("Ternary_neg", Ok(Ternary_neg(tern)))
CallToUnbalanced == Call("to_unbalanced", to_unbalanced(tern))

\* from_unbalanced, called on the text to_unbalanced returned.
CallFromUnbalanced ==
    /\ op = "to_unbalanced"
    /\ IsOk(out)
    /\ op' = "from_unbalanced"
    /\ text' = out.v
    /\ out' = from_unbalanced(out.v)
    /\ UNCHANGED <<build, lhs, rhs, tern, tern2, num, closure, data>>

InitTernary ==
    /\ build \in Builds
    /\ op = "none"
    /\ lhs = Zero
    /\ rhs = Zero
    /\ tern \in Receivers
    /\ tern2 = <<>>
    /\ num \in Lengths
    /\ text = <<>>
    /\ closure = "none"
    /\ data = <<>>
    /\ out = NoCall

NextTernary ==
    \/ CallTrim \/ CallWithLength \/ CallGetDigit \/ CallTernaryNeg
    \/ CallToUnbalanced \/ CallFromUnbalanced

SpecTernary == InitTernary /\ [][NextTernary]_vars

\* The value of a Ternary as a mathematical integer: the sum of each digit
\* times its power of 3.
RECURSIVE Value(_)
Value(v) == IF v = <<>> THEN 0 ELSE 3 * Value(SubSeq(v, 1, Len(v) - 1)) + to_i8(v[Len(v)])

\* C15: for every Ternary v whose value fits the accumulator, v.trim() is not
\* empty, has the decimal value of v, is its own trim, and is "0" when v has
\* no digit other than Zero.
C15_TrimKeepsValue ==
    (op = "trim" /\ Value(tern) \in I64) =>
        /\ IsOk(out)
        /\ out.v # <<>>
        /\ to_dec(out.v) = to_dec(tern)
        /\ trim(out.v) = out
        /\ (\A i \in 1..Len(tern) : tern[i] = Zero) => out.v = <<Zero>>

\* C16: v.with_length(n) is v when n <= v.log(); when n >= v.log() it has n
\* digits, n - v.log() Zero digits followed by the digits of v, and the
\* decimal value of v.
C16_WithLengthPadsLeft ==
    op = "with_length" =>
        /\ IsOk(out)
        /\ num <= log(tern) => out.v = tern
        /\ num >= log(tern) =>
               /\ Len(out.v) = num
               /\ \A i \in 1..(num - log(tern)) : out.v[i] = Zero
               /\ SubSeq(out.v, num - log(tern) + 1, num) = tern
               /\ to_dec(out.v) = to_dec(tern)

\* C17: v.get_digit(i) returns the digit i places from the right when
\* i < v.log() and None, without a panic, for every i >= v.log().
C17_GetDigitFromRight ==
    op = "get_digit" =>
        /\ IsOk(out)
        /\ num < log(tern) => out.v = Ok(tern[Len(tern) - num])
        /\ num >= log(tern) => out.v.st = "none"

\* C17 witness: index 0 of "+0-" gave the rightmost digit, Neg.
C17_Witness ==
    op = "get_digit" /\ tern = <<Pos, Zero, Neg>> /\ num = 0 /\ out = Ok(Ok(Neg))

\* i64 negation of what to_dec returned.
i64_neg(returned) == IF IsPanic(returned) THEN returned ELSE i64_op(-returned.v)

RECURSIVE Base3Value(_)
Base3Value(body) ==
    IF body = <<>> THEN 0
    ELSE 3 * Base3Value(SubSeq(body, 1, Len(body) - 1)) + to_digit(body[Len(body)])

\* C19: for every Ternary v, v.to_unbalanced() is the base-3 text of
\* v.to_dec(): characters 0, 1, 2 only, no leading 0, a leading '-' exactly
\* for a negative value, "0" for zero; and from_unbalanced of that text has
\* the decimal value of v.
C19_UnbalancedRoundTrip ==
    /\ op \in {"to_unbalanced", "from_unbalanced"} => IsOk(out)
    /\ op = "to_unbalanced" =>
           LET value == to_dec(tern)
               negative_sign == out.v # <<>> /\ out.v[1] = "-"
               body == IF negative_sign THEN Tail(out.v) ELSE out.v
           IN  /\ IsOk(value)
               /\ body # <<>>
               /\ \A i \in 1..Len(body) : body[i] \in {"0", "1", "2"}
               /\ Len(body) > 1 => body[1] # "0"
               /\ negative_sign <=> value.v < 0
               /\ Base3Value(body) = Abs(value.v)
    /\ op = "from_unbalanced" => to_dec(out.v) = to_dec(tern)

(***************************************************************************)
(* Tryte: six digits                                                        *)
(***************************************************************************)
\* raw: [Digit; 6]
TryteDigits == 6

\* i16, scaled with the accumulator: two bits narrower than the i64, wider
\* than the i8, and wide enough for every Tryte (i8 < i16 < i64).
I16Bits == IntBits - 2
I16 == (-(2^(I16Bits - 1)))..(2^(I16Bits - 1) - 1)
\* v as i16: the low bits, as a signed number
as_i16(v) == ((v + 2^(I16Bits - 1)) % (2^I16Bits)) - 2^(I16Bits - 1)

\* Tryte::to_ternary: the six raw digits
Tryte_to_ternary(self) == self

\* Tryte::from_ternary writing the digits from the left into six Zeros.
Tryte_from_ternary_from_left(v) ==
    IF log(v) > TryteDigits
      THEN Panic("Cannot convert a Ternary with more than 6 digits to a Tryte.")
    ELSE Ok([i \in 1..TryteDigits |-> IF i <= log(v) THEN v[i] ELSE Zero])

\* Tryte::from_ternary keeping the six low digits of a longer Ternary.
Tryte_from_ternary_truncating(v) ==
    Ok([i \in 1..TryteDigits |->
           IF i > TryteDigits - log(v) THEN v[i - (TryteDigits - log(v))] ELSE Zero])

\* Tryte::from_ternary: the digits are written from the right into six Zeros.
Tryte_from_ternary(v) ==
    IF log(v) > TryteDigits
      THEN Panic("Cannot convert a Ternary with more than 6 digits to a Tryte.")
    ELSE Ok([i \in 1..TryteDigits |->
                IF i > TryteDigits - log(v) THEN v[i - (TryteDigits - log(v))] ELSE Zero])

\* Tryte::to_i16
Tryte_to_i16(self) ==
    LET decimal == to_dec(Tryte_to_ternary(self))
    IN  IF IsPanic(decimal) THEN decimal ELSE Ok(as_i16(decimal.v))

\* Tryte::from_i16
Tryte_from_i16(v) ==
    LET ternary == from_dec(v)
    IN  IF IsPanic(ternary) THEN ternary ELSE Tryte_from_ternary(ternary.v)

\* impl Display for Tryte: "{:06}" of the Ternary's text; on text the width
\* fills with spaces on the right.
Tryte_to_string(self) ==
    LET str == to_string(Tryte_to_ternary(self))
    IN  str \o [i \in 1..(TryteDigits - Len(str)) |-> " "]

\* from_ternary of an operator's result: a panic of the operator is kept.
Tryte_from_ternary_of(result) ==
    IF IsPanic(result) THEN result ELSE Tryte_from_ternary(result.v)

\* impl Add for Tryte that keeps the six low digits of the sum.
Tryte_add_truncating(self, other) ==
    LET sum == Ternary_add(Tryte_to_ternary(self), Tryte_to_ternary(other))
    IN  IF IsPanic(sum) THEN sum ELSE Tryte_from_ternary_truncating(sum.v)

\* impl Add, Sub, Mul, Div for Tryte
Tryte_add(self, other) ==
    Tryte_from_ternary_of(Ternary_add(Tryte_to_ternary(self), Tryte_to_ternary(other)))
Tryte_sub(self, other) ==
    Tryte_from_ternary_of(Ternary_sub(Tryte_to_ternary(self), Tryte_to_ternary(other)))
Tryte_mul(self, other) ==
    Tryte_from_ternary_of(Ternary_mul(Tryte_to_ternary(self), Tryte_to_ternary(other)))
Tryte_div(self, other) ==
    Tryte_from_ternary_of(Ternary_div(Tryte_to_ternary(self), Tryte_to_ternary(other)))

CallTryteFromTernary == Call("Tryte_from_ternary", Tryte_from_ternary(tern))
CallTryteFromI16 == Call("Tryte_from_i16", Tryte_from_i16(num))
\* The operators take two Trytes.
CallTryteAdd ==
    Len(tern) = TryteDigits /\ Len(tern2) = TryteDigits /\ Call("Tryte_add", Tryte_add(tern, tern2))
CallTryteSub ==
    Len(tern) = TryteDigits /\ Len(tern2) = TryteDigits /\ Call("Tryte_sub", Tryte_sub(tern, tern2))
CallTryteMul ==
    Len(tern) = TryteDigits /\ Len(tern2) = TryteDigits /\ Call("Tryte_mul", Tryte_mul(tern, tern2))
CallTryteDiv ==
    Len(tern) = TryteDigits /\ Len(tern2) = TryteDigits /\ Call("Tryte_div", Tryte_div(tern, tern2))

\* Ternaries given to from_ternary: the short ones, the same under leading
\* Zeros up to two digits past a Tryte, and the values around its range.
TryteTernaries ==
    ShortTernaries
      \cup {[i \in 1..len |-> IF i > len - Len(t) THEN t[i - (len - Len(t))] ELSE Zero] :
               t \in ShortTernaries \ {<<>>}, len \in (TryteDigits - 1)..(TryteDigits + 2)}
      \cup {from_dec(v).v : v \in {-366, -365, -364, -363, 255, 363, 364, 365, 366}}

\* The values the Tryte operands of the operators are drawn from.
TryteValues ==
    {0, 1, 2, 3, 16, 18, 19, 20, 121, 122, 181, 182, 183, 255, 363, 364}
      \cup {-1, -2, -3, -19, -121, -182, -183, -363, -364}
TryteOperands == {Tryte_from_i16(v).v : v \in TryteValues}

InitTryte ==
    /\ build \in Builds
    /\ op = "none"
    /\ lhs = Zero
    /\ rhs = Zero
    /\ closure = "none"
    /\ text = <<>>
    /\ data = <<>>
    /\ out = NoCall
    /\ \/ tern \in TryteTernaries /\ tern2 = <<>> /\ num = 0
       \/ tern = <<>> /\ tern2 = <<>> /\ num \in I16
       \/ \E pair \in TryteOperands \X TryteOperands :
              tern = pair[1] /\ tern2 = pair[2] /\ num = 0

NextTryte ==
    \/ CallTryteFromTernary \/ CallTryteFromI16
    \/ CallTryteAdd \/ CallTryteSub \/ CallTryteMul \/ CallTryteDiv

SpecTryte == InitTryte /\ [][NextTryte]_vars

\* The digits of v once its leading Zeros are gone.
RECURSIVE Significant(_)
Significant(v) ==
    IF v = <<>> \/ v[1] # Zero THEN v ELSE Significant(SubSeq(v, 2, Len(v)))

\* v with Zeros in front up to length digits.
LeftPadded(v, length) ==
    [i \in 1..length |-> IF i > length - Len(v) THEN v[i - (length - Len(v))] ELSE Zero]

\* C22 as stated: Tryte::from_ternary(t) fails exactly when t has more than
\* 6 digits once its leading Zeros are removed; with 6 or fewer it succeeds
\* and the Tryte's to_ternary() has the value of t.
C22_FromTernaryCountsSignificant ==
    op = "Tryte_from_ternary" =>
        /\ IsPanic(out) <=> Len(Significant(tern)) > 6
        /\ IsOk(out) => Value(Tryte_to_ternary(out.v)) = Value(tern)

\* C22: Tryte::from_ternary(t) fails exactly when t has more than 6 digits,
\* leading Zeros counted; with 6 or fewer it succeeds and the Tryte's
\* to_ternary() is t with Zeros in front up to 6 digits, of the same value.
C22_FromTernaryCountsDigits ==
    op = "Tryte_from_ternary" =>
        /\ IsPanic(out) <=> Len(tern) > 6
        /\ IsOk(out) =>
              /\ Tryte_to_ternary(out.v) = LeftPadded(tern, 6)
              /\ Value(Tryte_to_ternary(out.v)) = Value(tern)

\* C22 witness: from_ternary took "0+-", three digits with a leading Zero,
\* and returned the Tryte "0000+-".
C22_Witness ==
    /\ op = "Tryte_from_ternary" /\ tern = <<Zero, Pos, Neg>>
    /\ out = Ok(<<Zero, Zero, Zero, Zero, Pos, Neg>>)

\* C23: Tryte::from_i16(v) returns a Tryte exactly when -364 <= v <= 364 and
\* panics otherwise; the Tryte's to_i16() is v and its to_string() is the six
\* characters of from_dec(v) with '0' in front.
C23_FromI16Range ==
    op = "Tryte_from_i16" =>
        /\ IsOk(out) <=> (-364 <= num /\ num <= 364)
        /\ IsPanic(out) <=> Abs(num) >= 365
        /\ IsOk(out) =>
              /\ Tryte_to_i16(out.v) = Ok(num)
              /\ Len(Tryte_to_string(out.v)) = 6
              /\ Tryte_to_string(out.v) =
                    [i \in 1..6 |-> to_char(LeftPadded(from_dec(num).v, 6)[i])]
              /\ num = 364 => Tryte_to_string(out.v) = <<"+", "+", "+", "+", "+", "+">>
              /\ num = -364 => Tryte_to_string(out.v) = <<"-", "-", "-", "-", "-", "-">>
              /\ num = 255 => Tryte_to_string(out.v) = <<"+", "0", "0", "+", "+", "0">>

\* C23 witness: from_i16 took 365 and panicked.
C23_Witness ==
    /\ op = "Tryte_from_i16" /\ num = 365
    /\ out = Panic("Cannot convert a Ternary with more than 6 digits to a Tryte.")

\* The exact integer each operator stands for; the quotient is cut towards 0.
Exact(name, p, q) ==
    CASE name = "Tryte_add" -> p + q
      [] name = "Tryte_sub" -> p - q
      [] name = "Tryte_mul" -> p * q
      [] name = "Tryte_div" -> signum(p) * signum(q) * (Abs(p) \div Abs(q))

TryteOps == {"Tryte_add", "Tryte_sub", "Tryte_mul", "Tryte_div"}

\* C24: for Trytes a and b (b not zero for /), each of a + b, a - b, a * b,
\* a / b returns the Tryte whose value is the exact integer result when that
\* lies in -364..364, and panics when it does not.
C24_TryteArithIsExactOrPanics ==
    (op \in TryteOps /\ ~(op = "Tryte_div" /\ Value(tern2) = 0)) =>
        LET exact == Exact(op, Value(tern), Value(tern2))
        IN  /\ IsOk(out) <=> (-364 <= exact /\ exact <= 364)
            /\ IsPanic(out) <=> Abs(exact) > 364
            /\ IsOk(out) => Len(out.v) = 6 /\ Value(out.v) = exact

\* C24 witness: 364 + 1 panicked.
C24_Witness ==
    /\ op = "Tryte_add" /\ Value(tern) = 364 /\ Value(tern2) = 1
    /\ IsPanic(out)

(***************************************************************************)
(* TritsChunk and DataTernary: five digits to the byte                      *)
(***************************************************************************)
\* The digits of one chunk.
ChunkDigits == 5

\* i8
I8Bits == 8
I8 == (-(2^(I8Bits - 1)))..(2^(I8Bits - 1) - 1)
\* v as i8: the low bits, as a signed number
as_i8(v) == ((v + 2^(I8Bits - 1)) % (2^I8Bits)) - 2^(I8Bits - 1)

\* A TritsChunk is its i8.
\* TritsChunk::to_ternary
TritsChunk_to_ternary(self) == from_dec(self)

\* TritsChunk::to_fixed_ternary
TritsChunk_to_fixed_ternary(self) ==
    LET ternary == from_dec(self)
    IN  IF IsPanic(ternary) THEN ternary ELSE Ok(with_length(ternary.v, ChunkDigits))

\* TritsChunk::to_digits
TritsChunk_to_digits(self) == TritsChunk_to_fixed_ternary(self)

\* TritsChunk::from_ternary
TritsChunk_from_ternary(ternary) ==
    IF log(ternary) > ChunkDigits
      THEN Panic("TritsChunk::from_ternary(): Ternary is too long")
    ELSE LET decimal == to_dec(ternary)
         IN  IF IsPanic(decimal) THEN decimal ELSE Ok(as_i8(decimal.v))

\* The loop of DataTernary::from_ternary from chunk i on: five digits of the
\* padded Ternary to each chunk.
RECURSIVE DataTernary_from_ternary_loop(_, _, _)
DataTernary_from_ternary_loop(ternary, i, chunks) ==
    IF i >= log(ternary) \div ChunkDigits THEN Ok(chunks)
    ELSE LET digits == SubSeq(ternary, i * ChunkDigits + 1, (i + 1) * ChunkDigits)
             chunk == TritsChunk_from_ternary(digits)
         IN  IF IsPanic(chunk) THEN chunk
             ELSE DataTernary_from_ternary_loop(ternary, i + 1, Append(chunks, chunk.v))

\* DataTernary::from_ternary; a DataTernary is the sequence of its chunks.
DataTernary_from_ternary(ternary) ==
    LET len == log(ternary)
        diff == ChunkDigits - (len % ChunkDigits)
        padded == with_length(ternary, len + diff)
    IN  DataTernary_from_ternary_loop(padded, 0, <<>>)

\* The loop of DataTernary::to_ternary from the i-th chunk on.
RECURSIVE DataTernary_to_ternary_loop(_, _, _)
DataTernary_to_ternary_loop(self, i, digits) ==
    IF i > Len(self) THEN Ok(digits)
    ELSE LET chunk == TritsChunk_to_ternary(self[i])
         IN  IF IsPanic(chunk) THEN chunk
             ELSE DataTernary_to_ternary_loop(self, i + 1, digits \o chunk.v)

\* DataTernary::to_ternary
DataTernary_to_ternary(self) ==
    LET digits == DataTernary_to_ternary_loop(self, 1, <<>>)
    IN  IF IsPanic(digits) THEN digits ELSE trim(digits.v)

\* The loop of DataTernary::to_fixed_ternary from the i-th chunk on.
RECURSIVE DataTernary_to_fixed_ternary_loop(_, _, _)
DataTernary_to_fixed_ternary_loop(self, i, digits) ==
    IF i > Len(self) THEN Ok(digits)
    ELSE LET chunk == TritsChunk_to_digits(self[i])
         IN  IF IsPanic(chunk) THEN chunk
             ELSE DataTernary_to_fixed_ternary_loop(self, i + 1, digits \o chunk.v)

\* DataTernary::to_fixed_ternary
DataTernary_to_fixed_ternary(self) ==
    LET digits == DataTernary_to_fixed_ternary_loop(self, 1, <<>>)
    IN  IF IsPanic(digits) THEN digits ELSE trim(digits.v)

\* DataTernary::from_dec
DataTernary_from_dec(from) ==
    LET ternary == from_dec(from)
    IN  IF IsPanic(ternary) THEN ternary ELSE DataTernary_from_ternary(ternary.v)

\* DataTernary::to_dec
DataTernary_to_dec(self) ==
    LET ternary == DataTernary_to_ternary(self)
    IN  IF IsPanic(ternary) THEN ternary ELSE to_dec(ternary.v)

\* impl Display for DataTernary from the i-th chunk on: the text of each
\* chunk's fixed form.
RECURSIVE DataTernary_to_string_loop(_, _, _)
DataTernary_to_string_loop(self, i, written) ==
    IF i > Len(self) THEN Ok(written)
    ELSE LET chunk == TritsChunk_to_fixed_ternary(self[i])
         IN  IF IsPanic(chunk) THEN chunk
             ELSE DataTernary_to_string_loop(self, i + 1, written \o to_string(chunk.v))

DataTernary_to_string(self) == DataTernary_to_string_loop(self, 1, <<>>)

\* The two constructors; what they return becomes the receiver of the
\* methods.
Construct(name, made) ==
    /\ op = "none"
    /\ op' = name
    /\ out' = made
    /\ data' = IF IsOk(made) THEN made.v ELSE data
    /\ UNCHANGED <<build, lhs, rhs, tern, tern2, num, text, closure>>

CallDataFromTernary == Construct("DataTernary_from_ternary", DataTernary_from_ternary(tern))
CallDataFromDec == Construct("DataTernary_from_dec", DataTernary_from_dec(num))

Constructors == {"DataTernary_from_ternary", "DataTernary_from_dec"}

\* A method called on the DataTernary a constructor returned; op keeps the
\* constructor's name in front of the method's.
Method(name, result) ==
    /\ op \in Constructors
    /\ IsOk(out)
    /\ op' = op \o "." \o name
    /\ out' = result
    /\ UNCHANGED <<build, lhs, rhs, tern, tern2, num, text, closure, data>>

CallDataToTernary == Method("to_ternary", DataTernary_to_ternary(data))
CallDataToFixedTernary == Method("to_fixed_ternary", DataTernary_to_fixed_ternary(data))
CallDataToDec == Method("to_dec", DataTernary_to_dec(data))
CallDataToString == Method("to_string", DataTernary_to_string(data))

\* Ternaries given to from_ternary: the short ones, the same under leading
\* Zeros up to two chunks, and the values around one chunk's range and the
\* accumulator's.
DataTernaries ==
    ShortTernaries
      \cup {[i \in 1..len |-> IF i > len - Len(t) THEN t[i - (len - Len(t))] ELSE Zero] :
               t \in ShortTernaries \ {<<>>}, len \in (ChunkDigits - 1)..(ChunkDigits + 2)}
      \cup {from_dec(v).v : v \in {42, -42, 121, -121, 122, 243, -243, 244, 364, MaxFit, I64Max}}
\* Decimals given to from_dec.
DataDecimals ==
    {0, 1, -1, 42, -42, 121, -121, 122, 243, -243, 244, 364, MaxFit, -MaxFit,
     I64Max, I64Min + 1, I64Min}

InitData ==
    /\ build \in Builds
    /\ op = "none"
    /\ lhs = Zero
    /\ rhs = Zero
    /\ tern2 = <<>>
    /\ closure = "none"
    /\ text = <<>>
    /\ data = <<>>
    /\ out = NoCall
    /\ \/ tern \in DataTernaries /\ num = 0
       \/ tern = <<>> /\ num \in DataDecimals

NextData ==
    \/ CallDataFromTernary \/ CallDataFromDec
    \/ CallDataToTernary \/ CallDataToFixedTernary \/ CallDataToDec \/ CallDataToString

SpecData == InitData /\ [][NextData]_vars

\* C25 as stated: DataTernary::from_dec(n).to_dec() is n for every n
\* from_dec takes, and DataTernary::from_ternary(t).to_ternary() is t.trim(),
\* of the value of t, however many chunks t fills.
C25_DataRoundTrip ==
    /\ op = "DataTernary_from_dec.to_dec" => IsOk(out) /\ out.v = num
    /\ op = "DataTernary_from_ternary.to_ternary" =>
          /\ IsOk(out)
          /\ Value(out.v) = Value(tern)
          /\ IsOk(trim(tern)) /\ out.v = trim(tern).v

\* The number a DataTernary stores: each chunk weighs 3^5 times the next.
RECURSIVE Stored(_)
Stored(chunks) ==
    IF chunks = <<>> THEN 0
    ELSE Pow3(5) * Stored(SubSeq(chunks, 1, Len(chunks) - 1)) + chunks[Len(chunks)]

\* The 5-digit forms of the chunks, one after the other.
RECURSIVE FixedForms(_)
FixedForms(chunks) ==
    IF chunks = <<>> THEN <<>>
    ELSE LeftPadded(from_dec(chunks[1]).v, 5) \o FixedForms(SubSeq(chunks, 2, Len(chunks)))

FixedCalls == {"DataTernary_from_ternary.to_fixed_ternary", "DataTernary_from_dec.to_fixed_ternary"}

\* C26 as stated: to_fixed_ternary returns the 5-digit forms of the chunks one
\* after the other: 5 digits for each chunk, leading Zeros kept, and the
\* to_dec() of the result is the stored number. With overflow checks it is
\* read only where to_dec can weigh the 5 digits of every chunk together.
C26_FixedTernaryKeepsEveryDigit ==
    (op \in FixedCalls /\ (build = "release" \/ 5 * Len(data) <= FitDigits)) =>
        /\ IsOk(out)
        /\ Len(out.v) = 5 * Len(data)
        /\ out.v = FixedForms(data)
        /\ to_dec(out.v) = Ok(Stored(data))

\* n / 5 rounded up
CeilFifth(n) == (n + 4) \div 5

\* C27 as stated: from_ternary stores a Ternary of n >= 1 digits in
\* ceil(n / 5) chunks, having put in front only the Zeros that make n a
\* multiple of 5, and to_string() of the DataTernary is the text of the
\* Ternary with '0' in front up to 5 * ceil(n / 5) characters.
C27_PadsOnlyAsNecessary ==
    (op = "DataTernary_from_ternary.to_string" /\ Len(tern) >= 1) =>
        /\ Len(data) = CeilFifth(Len(tern))
        /\ IsOk(out)
        /\ out.v = to_string(LeftPadded(tern, 5 * CeilFifth(Len(tern))))

(***************************************************************************)
(* Digit conversions, on every Digit, character and i8                      *)
(***************************************************************************)
\* The char argument is the one character of text.
CallToChar == Call("to_char", Ok(to_char(lhs)))
CallFromChar == Call("from_char", from_char(text[1]))
CallToI8 == Call("to_i8", Ok(to_i8(lhs)))
CallFromI8 == Call("from_i8", from_i8(num))

InitConv ==
    /\ build \in Builds
    /\ op = "none"
    /\ lhs \in Digit
    /\ rhs = Zero
    /\ tern = <<>>
    /\ tern2 = <<>>
    /\ num \in I8
    /\ text \in {<<c>> : c \in Chars \cup {"1", " "}}
    /\ closure = "none"
    /\ data = <<>>
    /\ out = NoCall

NextConv == CallToChar \/ CallFromChar \/ CallToI8 \/ CallFromI8

SpecConv == InitConv /\ [][NextConv]_vars

\* C28: to_char and to_i8 send Neg, Zero, Pos to '-', '0', '+' and -1, 0, 1;
\* from_char and from_i8 send each of those back to its Digit, so each pair
\* is inverse both ways; from_char panics on every other character and
\* from_i8 on every other i8.
C28_DigitConversionsAreBijections ==
    /\ op = "to_char" =>
          /\ out.v = (CASE lhs = Neg -> "-" [] lhs = Zero -> "0" [] lhs = Pos -> "+")
          /\ from_char(out.v) = Ok(lhs)
    /\ op = "to_i8" =>
          /\ out.v = (CASE lhs = Neg -> -1 [] lhs = Zero -> 0 [] lhs = Pos -> 1)
          /\ from_i8(out.v) = Ok(lhs)
    /\ op = "from_char" =>
          /\ IsPanic(out) <=> text[1] \notin {"-", "0", "+"}
          /\ IsOk(out) => out.v \in Digit /\ to_char(out.v) = text[1]
    /\ op = "from_i8" =>
          /\ IsPanic(out) <=> num \notin {-1, 0, 1}
          /\ IsOk(out) => out.v \in Digit /\ to_i8(out.v) = num

\* C28 witness: from_i8 took -2 and panicked.
C28_Witness ==
    /\ op = "from_i8" /\ num = -2
    /\ out = Panic("Invalid value. A Ternary must be either -1, 0 or +1.")

(***************************************************************************)
(* from_dec: the form of its result and its sweep                           *)
(***************************************************************************)
\* C29 as stated: for every i64 n other than i64::MIN, from_dec(n) is not
\* empty and is canonical: "0" for n = 0, a most significant digit other than
\* Zero for n # 0, and from_dec(n).trim() is from_dec(n).
C29_FromDecIsCanonical ==
    (op = "from_dec" /\ num # I64Min) =>
        /\ IsOk(out)
        /\ out.v # <<>>
        /\ num = 0 => out.v = <<Zero>>
        /\ num # 0 => out.v[1] # Zero
        /\ LET trimmed == trim(out.v) IN IsOk(trimmed) /\ trimmed.v = out.v

\* What the sweep of from_dec meets at each position, from the i-th character
\* from the right on: the digit read plus the carry brought, and the carry
\* left.
RECURSIVE Sweep(_, _, _)
Sweep(str, i, carry) ==
    IF i > Len(str) THEN <<>>
    ELSE LET digit == u8_from_str(str[Len(str) + 1 - i]).v + carry
         IN  <<[digit |-> digit, carry |-> IF digit < 2 THEN 0 ELSE 1]>>
                 \o Sweep(str, i + 1, IF digit < 2 THEN 0 ELSE 1)

\* C30: from_dec(n) returns a Ternary for every i64 n other than i64::MIN:
\* at every position of the sweep the digit plus the carry is 0, 1, 2 or 3
\* and the carry left is 0 or 1, so the "Invalid digit" panic is not reached;
\* from_dec(i64::MIN) panics and returns nothing.
C30_FromDecIsTotalButMin ==
    op = "from_dec" =>
        /\ num # I64Min => IsOk(out)
        /\ num = I64Min => IsPanic(out)
        /\ IsPanic(out) => out.v # "Ternary::from_dec(): Invalid digit"
        /\ num # I64Min =>
              LET met == Sweep(format_radix(i64_abs(num).v, 3), 1, 0)
              IN  /\ Len(met) = Len(format_radix(Abs(num), 3))
                  /\ \A i \in 1..Len(met) :
                         met[i].digit \in 0..3 /\ met[i].carry \in {0, 1}

\* C30 witness: from_dec took 8, "22" in base 3, whose second digit with the
\* carry makes 3, and returned "+0-".
C30_Witness ==
    /\ op = "from_dec" /\ num = 8
    /\ Sweep(<<"2", "2">>, 1, 0)[2].digit = 3
    /\ out = Ok(<<Pos, Zero, Neg>>)

=============================================================================
